---- MODULE Spec2Model ----
(***************************************************************************)
(* A model of corex (src/lib.rs): the CoreX shell, its extension registry, *)
(* the build fold over the registered extensions and the run sequence      *)
(* (format address, build, print, bind, serve).                            *)
(*                                                                         *)
(* The router is the axum Router the code folds the extensions over.  It   *)
(* is modelled by its route table: the set of (path, method, body) routes  *)
(* added with Router::route, which rejects (panics on) a path that does    *)
(* not start with "/" and a path+method that already has a handler.        *)
(***************************************************************************)
EXTENDS Integers, Sequences, FiniteSets, TLC

\* Longest registration sequence explored.
MaxExt == 3

(***************************************************************************)
(* Values.  A Rust value that may be absent (not yet constructed, moved    *)
(* out, dropped) is a sequence of length 0 or 1.                           *)
(***************************************************************************)
None == << >>

Some(v) == << v >>

\* Hosts given to CoreX::new.
Hosts == {"127.0.0.1", "localhost", "0.0.0.0"}

\* Ports given to CoreX::new (u16): both ends of the range, a privileged
\* port and the port of the first test.
Ports == {0, 80, 3000, 65535}

Methods == {"GET", "POST"}

\* Request paths a client asks for.
Paths == {"/", "/test", "/a"}

(***************************************************************************)
(* Extensions: Arc<dyn ExtensionTrait> objects the caller creates.  An     *)
(* extension object is identified by its id (the Arc's pointee); name()    *)
(* and extend() are given per object.  extend() adds the listed routes,    *)
(* in order, with Router::route.                                           *)
(***************************************************************************)
Extensions == {"test", "a", "b", "p", "m", "n"}

\* ExtensionTrait::name.  "a" and "b" share a name, and so do "test" and "n".
ExtName(e) ==
    CASE e = "test" -> "TestExtension"
      [] e = "a"    -> "RouteA"
      [] e = "b"    -> "RouteA"
      [] e = "p"    -> "PostA"
      [] e = "m"    -> "Malformed"
      [] e = "n"    -> "TestExtension"

\* The routes the extension's extend() adds.  "test" is TestExtension: its
\* handler answers Json(json!({ "message": "Test endpoint" })).  "n" adds no
\* route: its extend returns the router it was given.
ExtRoutes(e) ==
    CASE e = "test" -> << [path |-> "/test", method |-> "GET", body |-> "{\"message\":\"Test endpoint\"}"] >>
      [] e = "a"    -> << [path |-> "/a", method |-> "GET", body |-> "A"] >>
      [] e = "b"    -> << [path |-> "/a", method |-> "GET", body |-> "B"] >>
      [] e = "p"    -> << [path |-> "/a", method |-> "POST", body |-> "P"] >>
      [] e = "m"    -> << [path |-> "bad", method |-> "GET", body |-> "M"] >>
      [] e = "n"    -> << >>

(***************************************************************************)
(* The router: its route table, a set of [path, method, body].  A call     *)
(* that takes a router and returns one has the outcome                     *)
(* [panic, router]: panic = TRUE when the call panicked (router is then    *)
(* the router it was given, which is lost with the unwinding).             *)
(***************************************************************************)

\* A new router that already answers GET /.
RouterWithRoot == {[path |-> "/", method |-> "GET", body |-> "root"]}

\* Router::new(): no routes.
RouterNew == {}

Ok(router) == [panic |-> FALSE, router |-> router]

Panicked(router) == [panic |-> TRUE, router |-> router]

\* Router::route(path, method_router): panics on a path that does not start
\* with "/" and on a path+method that already has a handler; otherwise the
\* route is added.
Route(router, r) ==
    IF Len(r.path) = 0 \/ Head(r.path) # "/" THEN Panicked(router)
    ELSE IF \E q \in router : q.path = r.path /\ q.method = r.method
    THEN Panicked(router)
    ELSE Ok(router \cup {r})

RECURSIVE RouteAll(_, _, _)
RouteAll(router, routes, i) ==
    IF i > Len(routes) THEN Ok(router)
    ELSE LET o == Route(router, routes[i])
         IN  IF o.panic THEN o ELSE RouteAll(o.router, routes, i + 1)

\* ExtensionTrait::extend(&self, router) -> Router.
Extend(e, router) == RouteAll(router, ExtRoutes(e), 1)

\* The response of the served router to a request: the handler's 200 and
\* body for a matching path+method, 405 for a known path with another
\* method, 404 for an unknown path.
Dispatch(router, path, method) ==
    IF \E q \in router : q.path = path /\ q.method = method
    THEN LET q == CHOOSE q \in router : q.path = path /\ q.method = method
         IN  [status |-> 200, body |-> q.body]
    ELSE IF \E q \in router : q.path = path
    THEN [status |-> 405, body |-> ""]
    ELSE [status |-> 404, body |-> ""]

(***************************************************************************)
(* format!("{}:{}", host, port)                                            *)
(***************************************************************************)
Digit(d) ==
    CASE d = 0 -> "0" [] d = 1 -> "1" [] d = 2 -> "2" [] d = 3 -> "3"
      [] d = 4 -> "4" [] d = 5 -> "5" [] d = 6 -> "6" [] d = 7 -> "7"
      [] d = 8 -> "8" [] d = 9 -> "9"

RECURSIVE Decimal(_)
Decimal(n) == IF n < 10 THEN Digit(n) ELSE Decimal(n \div 10) \o Digit(n % 10)

\* An address formatted without the separator.
FormatAddrNoColon(host, port) == host \o Decimal(port)

FormatAddr(host, port) == host \o ":" \o Decimal(port)

(***************************************************************************)
(* State.                                                                  *)
(***************************************************************************)
VARIABLES
    pc,         \* where the caller / the run() task is
    core,       \* the CoreX value: None, or Some([router, extensions, host, port])
    addr,       \* run()'s local addr
    built,      \* the router build() returned
    listener,   \* the address of the bound TcpListener
    serving,    \* the router handed to axum::serve
    response,   \* the last response a client received
    stdout,     \* the lines printed
    newArgs,    \* history: the arguments of CoreX::new
    registered, \* history: the arguments of the register_extension calls
    calls,      \* history: the extend calls, [ext, in, panic, out]
    binds,      \* history: the TcpListener::bind calls, [addr, ok]
    buildCalls  \* history: the number of build() calls

vars == << pc, core, addr, built, listener, serving, response, stdout,
           newArgs, registered, calls, binds, buildCalls >>

Init ==
    /\ pc = "Unconstructed"
    /\ core = None
    /\ addr = None
    /\ built = None
    /\ listener = None
    /\ serving = None
    /\ response = None
    /\ stdout = << >>
    /\ newArgs = None
    /\ registered = << >>
    /\ calls = << >>
    /\ binds = << >>
    /\ buildCalls = 0

(***************************************************************************)
(* CoreX::new(host, port)                                                  *)
(***************************************************************************)
\* A constructor that keeps only the low byte of the port.
NewTruncPort(h, p) ==
    /\ pc = "Unconstructed"
    /\ core' = Some([router |-> RouterNew, extensions |-> << >>,
                     host |-> h, port |-> p % 256])
    /\ newArgs' = Some([host |-> h, port |-> p])
    /\ pc' = "Configuring"
    /\ UNCHANGED << addr, built, listener, serving, response, stdout,
                    registered, calls, binds, buildCalls >>

New(h, p) ==
    /\ pc = "Unconstructed"
    /\ core' = Some([router |-> RouterNew, extensions |-> << >>,
                     host |-> h, port |-> p])
    /\ newArgs' = Some([host |-> h, port |-> p])
    /\ pc' = "Configuring"
    /\ UNCHANGED << addr, built, listener, serving, response, stdout,
                    registered, calls, binds, buildCalls >>

(***************************************************************************)
(* CoreX::register_extension(&mut self, extension)                         *)
(***************************************************************************)
\* A registration that applies the extension to the router at once.
RegisterExtensionEager(e) ==
    /\ core # None
    /\ Len(registered) < MaxExt
    /\ core' = Some([core[1] EXCEPT !.extensions = Append(@, e),
                                    !.router = Extend(e, @).router])
    /\ registered' = Append(registered, e)
    /\ UNCHANGED << pc, addr, built, listener, serving, response, stdout,
                    newArgs, calls, binds, buildCalls >>

\* A registration that ignores an extension object already registered.
RegisterExtensionDedup(e) ==
    /\ core # None
    /\ Len(registered) < MaxExt
    /\ core' = Some([core[1] EXCEPT !.extensions =
                        IF \E i \in 1..Len(@) : @[i] = e THEN @ ELSE Append(@, e)])
    /\ registered' = Append(registered, e)
    /\ UNCHANGED << pc, addr, built, listener, serving, response, stdout,
                    newArgs, calls, binds, buildCalls >>

RegisterExtension(e) ==
    /\ core # None
    /\ Len(registered) < MaxExt
    /\ core' = Some([core[1] EXCEPT !.extensions = Append(@, e)])
    /\ registered' = Append(registered, e)
    /\ UNCHANGED << pc, addr, built, listener, serving, response, stdout,
                    newArgs, calls, binds, buildCalls >>

(***************************************************************************)
(* CoreX::build(self) -> Router: the loop over self.extensions.  The       *)
(* result is [panic, router, calls]: calls is the log of the extend calls  *)
(* made, each with the router it was given and the router it returned.     *)
(***************************************************************************)
\* A build loop that goes on with the next extension after a failed extend.
RECURSIVE BuildLoopSkipsFailed(_, _, _, _)
BuildLoopSkipsFailed(router, extensions, i, log) ==
    IF i > Len(extensions)
    THEN [panic |-> FALSE, router |-> router, calls |-> log]
    ELSE LET o == Extend(extensions[i], router)
             entry == [ext |-> extensions[i], in |-> router,
                       panic |-> o.panic, out |-> o.router]
         IN  BuildLoopSkipsFailed(o.router, extensions, i + 1, Append(log, entry))

RECURSIVE BuildLoop(_, _, _, _)
BuildLoop(router, extensions, i, log) ==
    IF i > Len(extensions)
    THEN [panic |-> FALSE, router |-> router, calls |-> log]
    ELSE LET o == Extend(extensions[i], router)
             entry == [ext |-> extensions[i], in |-> router,
                       panic |-> o.panic, out |-> o.router]
         IN  IF o.panic
             THEN [panic |-> TRUE, router |-> router, calls |-> Append(log, entry)]
             ELSE BuildLoop(o.router, extensions, i + 1, Append(log, entry))

\* The sequence s from its last element to its first.
Reverse(s) == [i \in 1..Len(s) |-> s[Len(s) + 1 - i]]

\* A build that walks the extensions from the last registered to the first.
BuildResultReversed(self) ==
    BuildLoop(self.router, Reverse(self.extensions), 1, << >>)

\* A build whose loop misses the first registered extension.
BuildResultSkipFirst(self) ==
    BuildLoop(self.router, self.extensions, 2, << >>)

\* The sequence s without the elements whose name an earlier element has.
RECURSIVE DedupByName(_)
DedupByName(s) ==
    IF s = << >> THEN << >>
    ELSE LET init == SubSeq(s, 1, Len(s) - 1)
             last == s[Len(s)]
         IN  IF \E j \in 1..Len(init) : ExtName(init[j]) = ExtName(last)
             THEN DedupByName(init)
             ELSE Append(DedupByName(init), last)

\* A build that applies one extension per name.
BuildResultDedupName(self) ==
    BuildLoop(self.router, DedupByName(self.extensions), 1, << >>)

BuildResult(self) == BuildLoop(self.router, self.extensions, 1, << >>)

\* A build that borrows the shell (&self) instead of consuming it.
BuildByRef ==
    /\ core # None
    /\ LET res == BuildResult(core[1])
       IN  /\ calls' = calls \o res.calls
           /\ built' = IF res.panic THEN built ELSE Some(res.router)
           /\ pc' = IF res.panic THEN "BuildPanicked" ELSE "Built"
    /\ buildCalls' = buildCalls + 1
    /\ UNCHANGED << core, addr, listener, serving, response, stdout, newArgs,
                    registered, binds >>

\* A build that also starts serving the router it built.
BuildStartsServing ==
    /\ core # None
    /\ LET res == BuildResult(core[1])
       IN  /\ calls' = calls \o res.calls
           /\ built' = IF res.panic THEN built ELSE Some(res.router)
           /\ serving' = IF res.panic THEN serving ELSE Some(res.router)
           /\ pc' = IF res.panic THEN "BuildPanicked" ELSE "Running"
    /\ core' = None
    /\ buildCalls' = buildCalls + 1
    /\ UNCHANGED << addr, listener, response, stdout, newArgs,
                    registered, binds >>

\* A direct call of build() by the owner of the shell.  self is taken by
\* value: the shell is moved into the call.
Build ==
    /\ core # None
    /\ LET res == BuildResult(core[1])
       IN  /\ calls' = calls \o res.calls
           /\ built' = IF res.panic THEN built ELSE Some(res.router)
           /\ pc' = IF res.panic THEN "BuildPanicked" ELSE "Built"
    /\ core' = None
    /\ buildCalls' = buildCalls + 1
    /\ UNCHANGED << addr, listener, serving, response, stdout, newArgs,
                    registered, binds >>

(***************************************************************************)
(* CoreX::run(self): lines 58-60 and the call of TcpListener::bind, up to  *)
(* its await.                                                              *)
(***************************************************************************)
\* A run that goes on to print and bind after a failed build.
RunIgnoresPanic ==
    /\ core # None
    /\ LET self == core[1]
           a == FormatAddr(self.host, self.port)
           res == BuildResult(self)
       IN  /\ addr' = Some(a)
           /\ calls' = calls \o res.calls
           /\ pc' = "Binding"
           /\ built' = Some(res.router)
           /\ stdout' = Append(stdout, "Server running at http://" \o a)
    /\ core' = None
    /\ buildCalls' = buildCalls + 1
    /\ UNCHANGED << listener, serving, response, newArgs, registered, binds >>

Run ==
    /\ core # None
    /\ LET self == core[1]
           a == FormatAddr(self.host, self.port)
           res == BuildResult(self)
       IN  /\ addr' = Some(a)
           /\ calls' = calls \o res.calls
           /\ IF res.panic
              THEN /\ pc' = "BuildPanicked"
                   /\ UNCHANGED << built, stdout >>
              ELSE /\ pc' = "Binding"
                   /\ built' = Some(res.router)
                   /\ stdout' = Append(stdout, "Server running at http://" \o a)
    /\ core' = None
    /\ buildCalls' = buildCalls + 1
    /\ UNCHANGED << listener, serving, response, newArgs, registered, binds >>

\* A run that serves a new router instead of the built one.
BindOkServesNew ==
    /\ pc = "Binding"
    /\ binds' = Append(binds, [addr |-> addr[1], ok |-> TRUE])
    /\ listener' = Some(addr[1])
    /\ serving' = Some(RouterNew)
    /\ pc' = "Running"
    /\ UNCHANGED << core, addr, built, response, stdout, newArgs, registered,
                    calls, buildCalls >>

\* TcpListener::bind(&addr).await succeeds; axum::serve takes the listener
\* and the router.
BindOk ==
    /\ pc = "Binding"
    /\ binds' = Append(binds, [addr |-> addr[1], ok |-> TRUE])
    /\ listener' = Some(addr[1])
    /\ serving' = built
    /\ pc' = "Running"
    /\ UNCHANGED << core, addr, built, response, stdout, newArgs, registered,
                    calls, buildCalls >>

\* A run that tries the bind once more after a first failure.
BindErrRetry ==
    /\ pc = "Binding"
    /\ binds' = Append(binds, [addr |-> addr[1], ok |-> FALSE])
    /\ pc' = IF binds = << >> THEN "Binding" ELSE "BindPanicked"
    /\ UNCHANGED << core, addr, built, listener, serving, response, stdout,
                    newArgs, registered, calls, buildCalls >>

\* TcpListener::bind(&addr).await returns Err: unwrap() panics.
BindErr ==
    /\ pc = "Binding"
    /\ binds' = Append(binds, [addr |-> addr[1], ok |-> FALSE])
    /\ pc' = "BindPanicked"
    /\ UNCHANGED << core, addr, built, listener, serving, response, stdout,
                    newArgs, registered, calls, buildCalls >>

\* A serving loop that adds a route for the path it was asked.
ServeAddsRoute(path, method) ==
    /\ pc = "Running"
    /\ response' = Some([path |-> path, method |-> method,
                         resp |-> Dispatch(serving[1], path, method)])
    /\ serving' = Some(serving[1] \cup
                         {[path |-> path, method |-> method, body |-> "late"]})
    /\ UNCHANGED << pc, core, addr, built, listener, stdout,
                    newArgs, registered, calls, binds, buildCalls >>

\* A serving loop that returns after one request.
ServeThenReturn(path, method) ==
    /\ pc = "Running"
    /\ response' = Some([path |-> path, method |-> method,
                         resp |-> Dispatch(serving[1], path, method)])
    /\ pc' = "Returned"
    /\ listener' = None
    /\ serving' = None
    /\ UNCHANGED << core, addr, built, stdout,
                    newArgs, registered, calls, binds, buildCalls >>

\* axum::serve answers one request of a client with the router.
Serve(path, method) ==
    /\ pc = "Running"
    /\ response' = Some([path |-> path, method |-> method,
                         resp |-> Dispatch(serving[1], path, method)])
    /\ UNCHANGED << pc, core, addr, built, listener, serving, stdout,
                    newArgs, registered, calls, binds, buildCalls >>

\* handle.abort(): the task running run() is cancelled at an await; its
\* locals (listener, router) are dropped.
Abort ==
    /\ pc \in {"Binding", "Running"}
    /\ pc' = "Aborted"
    /\ listener' = None
    /\ serving' = None
    /\ UNCHANGED << core, addr, built, response, stdout, newArgs, registered,
                    calls, binds, buildCalls >>

Next ==
    \/ \E h \in Hosts, p \in Ports : New(h, p)
    \/ \E e \in Extensions : RegisterExtension(e)
    \/ Build
    \/ Run
    \/ BindOk
    \/ BindErr
    \/ \E path \in Paths, method \in Methods : Serve(path, method)
    \/ Abort

Spec == Init /\ [][Next]_vars

(***************************************************************************)
(* Properties.                                                             *)
(***************************************************************************)

\* The routes an extension adds, as a set.
RoutesOf(e) == {ExtRoutes(e)[i] : i \in 1..Len(ExtRoutes(e))}

\* The extension's extend succeeds on an empty router.
WellFormed(e) == ~Extend(e, RouterNew).panic

\* Two extensions define a common path+method.
Overlap(a, b) ==
    \E r \in RoutesOf(a), q \in RoutesOf(b) :
        r.path = q.path /\ r.method = q.method

\* The router answers route r's path+method with r's handler.
Answers(router, r) ==
    Dispatch(router, r.path, r.method) = [status |-> 200, body |-> r.body]

TwoRegisteredAndBuilt ==
    /\ buildCalls = 1
    /\ Len(registered) = 2
    /\ WellFormed(registered[1])
    /\ WellFormed(registered[2])

C3_SingleUse ==
    /\ [](buildCalls <= 1 /\ Len(binds) <= 1)
    /\ [][buildCalls >= 1 =>
            /\ core = None /\ core' = None
            /\ registered' = registered
            /\ calls' = calls
            /\ buildCalls' = buildCalls
            /\ built' = built]_vars

\* A shell with a registered extension was consumed by run() and is serving.
C3_Witness ==
    /\ buildCalls = 1
    /\ core = None
    /\ Len(registered) >= 1
    /\ pc = "Running"
    /\ response # None

\* C4: with no extension registered, build() returns the router without
\* routes, which answers every path and method with 404, and run() serves
\* that router: every response, the one to GET / included, is a 404.
C4_EmptyBuild ==
    registered = << >> =>
        /\ built # None =>
              /\ built[1] = {}
              /\ \A path \in Paths, method \in Methods :
                    Dispatch(built[1], path, method).status = 404
        /\ buildCalls = 1 => built # None
        /\ pc = "Running" => serving = Some({})
        /\ response # None => response[1].resp.status = 404

\* run() on a shell without extensions answered GET /.
C4_Witness ==
    /\ registered = << >>
    /\ pc = "Running"
    /\ response # None
    /\ response[1].path = "/"
    /\ response[1].method = "GET"

\* The string s contains the string t.
Contains(s, t) ==
    \E i \in 1..(Len(s) - Len(t) + 1) : SubSeq(s, i, i + Len(t) - 1) = t

\* C5: while run() serves, every route added by a registered extension is
\* answered by that extension's handler, and a response to a request for
\* such a route is the handler's; with TestExtension alone, GET /test gets
\* 200 and a body containing "Test endpoint".
C5_RoutesServed ==
    pc = "Running" =>
        /\ \A i \in 1..Len(registered) : \A r \in RoutesOf(registered[i]) :
              /\ Answers(serving[1], r)
              /\ (/\ response # None
                  /\ response[1].path = r.path
                  /\ response[1].method = r.method)
                 => response[1].resp = [status |-> 200, body |-> r.body]
        /\ (/\ registered = << "test" >>
            /\ response # None
            /\ response[1].path = "/test"
            /\ response[1].method = "GET")
           => /\ response[1].resp.status = 200
              /\ Contains(response[1].resp.body, "Test endpoint")

\* run() with TestExtension alone answered GET /test.
C5_Witness ==
    /\ registered = << "test" >>
    /\ pc = "Running"
    /\ response # None
    /\ response[1].path = "/test"
    /\ response[1].method = "GET"

\* C7: a failed bind ends run().  Once a bind has failed, run() has
\* panicked after that single bind call, made with the address formatted
\* from the arguments of new(); nothing is bound or served; and no later
\* step binds again, binds elsewhere or serves.
C7_BindFailureFatal ==
    /\ []((\E i \in 1..Len(binds) : ~binds[i].ok) =>
            /\ pc = "BindPanicked"
            /\ Len(binds) = 1
            /\ binds[1].addr = FormatAddr(newArgs[1].host, newArgs[1].port)
            /\ listener = None
            /\ serving = None
            /\ response = None)
    /\ [][pc = "BindPanicked" =>
            /\ pc' = pc
            /\ binds' = binds
            /\ listener' = listener
            /\ serving' = serving
            /\ response' = response]_vars

\* The bind of run() failed.
C7_Witness ==
    /\ pc = "BindPanicked"
    /\ Len(binds) = 1
    /\ ~binds[1].ok

\* C8 as stated: the startup line is printed at most once and only after a
\* bind has succeeded; a run() whose bind fails prints nothing.
C8_StartupLineAfterBind ==
    /\ Len(stdout) <= 1
    /\ stdout # << >> => \E i \in 1..Len(binds) : binds[i].ok
    /\ pc = "BindPanicked" => stdout = << >>

\* C9: new(host, port) can be called with every host and port; the shell it
\* returns has a router without routes, no extensions, and exactly the host
\* and port given; nothing was bound, printed or extended.
C9_New ==
    /\ pc = "Unconstructed" => \A h \in Hosts, p \in Ports : ENABLED New(h, p)
    /\ (pc = "Configuring" /\ registered = << >> /\ buildCalls = 0) =>
          /\ core = Some([router |-> {}, extensions |-> << >>,
                          host |-> newArgs[1].host, port |-> newArgs[1].port])
          /\ newArgs[1].port \in 0..65535
          /\ binds = << >>
          /\ listener = None
          /\ serving = None
          /\ stdout = << >>
          /\ calls = << >>

\* new() was called with the largest port.
C9_Witness ==
    /\ pc = "Configuring"
    /\ registered = << >>
    /\ core # None
    /\ newArgs[1].port = 65535

\* C10: until build() runs (directly or inside run()), no extend has been
\* called and the shell's router has no route, whatever was registered.
C10_RouterEmptyUntilBuild ==
    buildCalls = 0 =>
        /\ calls = << >>
        /\ core # None => core[1].router = {}
        /\ built = None

\* Two extensions are registered and build() has not run.
C10_Witness ==
    /\ buildCalls = 0
    /\ Len(registered) >= 2
    /\ core # None

\* C11: register_extension cannot fail and validates nothing.  While the
\* shell is being configured its extension sequence is exactly the sequence
\* of the arguments of the calls made so far, in call order (each call
\* appended one element and moved none), its router has no route and its
\* host and port are those given to new(); and every extension, valid or
\* not, already registered or not, can be registered next.
C11_RegisterAppends ==
    core # None =>
        /\ core[1].extensions = registered
        /\ Len(core[1].extensions) = Len(registered)
        /\ core[1].router = {}
        /\ core[1].host = newArgs[1].host
        /\ core[1].port = newArgs[1].port
        /\ Len(registered) < MaxExt =>
              \A e \in Extensions : ENABLED RegisterExtension(e)

\* Three registrations were accepted, the first of an extension whose route
\* is malformed, the others of one same object.
C11_Witness ==
    /\ core # None
    /\ Len(registered) = 3
    /\ registered[1] = "m"
    /\ registered[2] = registered[3]

\* At least two extensions are registered, all of one name (one object
\* registered several times included), each well formed on its own, and
\* build() was called.
DuplicatesRegisteredAndBuilt ==
    /\ buildCalls = 1
    /\ Len(registered) >= 2
    /\ \A i, j \in 1..Len(registered) :
          ExtName(registered[i]) = ExtName(registered[j])
    /\ \A i \in 1..Len(registered) : WellFormed(registered[i])

SomeExtendFailed == \E i \in 1..Len(calls) : calls[i].panic

\* C13: inside run() the order is build, bind, serve.  A bind is made only
\* after build() returned with every extension applied; a router is served
\* only after the one bind succeeded, and it is the router build()
\* returned; the router is handed to the serving loop once (at the bind
\* step), and once handed over it is never changed, only dropped.
C13_BuildBindServe ==
    /\ [](/\ binds # << >> =>
                /\ buildCalls = 1
                /\ built # None
                /\ Len(calls) = Len(registered)
                /\ ~SomeExtendFailed
          /\ serving # None =>
                /\ Len(binds) = 1
                /\ binds[1].ok
                /\ listener # None
                /\ serving = built
          /\ pc = "Running" => serving # None)
    /\ [][/\ serving # None => (serving' = serving \/ serving' = None)
          /\ (serving = None /\ serving' # None) =>
                (pc = "Binding" /\ binds = << >> /\ built # None)
          /\ built # None => built' = built]_vars

\* run() with three extensions registered is serving and has answered a
\* request.
C13_Witness ==
    /\ pc = "Running"
    /\ Len(registered) = 3
    /\ serving = built
    /\ response # None

\* The decimal text of the ports explored.
PortText(p) ==
    CASE p = 0 -> "0" [] p = 80 -> "80" [] p = 3000 -> "3000"
      [] p = 65535 -> "65535"

\* The text host:port of the arguments of new().
HostPortOfNew == newArgs[1].host \o ":" \o PortText(newArgs[1].port)

\* C14: at most one bind is made per shell, a serving run() has made
\* exactly one, and the address bound is host:port of the host and port
\* given to new(), whatever was registered in between.
C14_OneListenerAtHostPort ==
    /\ Len(binds) <= 1
    /\ \A i \in 1..Len(binds) : binds[i].addr = HostPortOfNew
    /\ addr # None => addr[1] = HostPortOfNew
    /\ listener # None =>
          /\ listener[1] = HostPortOfNew
          /\ binds = << [addr |-> HostPortOfNew, ok |-> TRUE] >>
    /\ pc = "Running" => listener # None
    /\ core # None =>
          /\ core[1].host = newArgs[1].host
          /\ core[1].port = newArgs[1].port

\* run() bound its listener on the largest port after three registrations.
C14_Witness ==
    /\ pc = "Running"
    /\ Len(registered) = 3
    /\ newArgs[1].port = 65535
    /\ listener # None

\* C15: when an extend fails during build(), that call is the last one
\* made (no later registration is called), no router is returned or
\* served, the shell value is gone, and nothing happens to the shell
\* afterwards: no registration, no extend, no build, no run.
C15_FailedBuild ==
    /\ [](SomeExtendFailed =>
            /\ pc = "BuildPanicked"
            /\ built = None
            /\ serving = None
            /\ core = None
            /\ Len(calls) <= Len(registered)
            /\ calls[Len(calls)].panic
            /\ \A i \in 1..(Len(calls) - 1) : ~calls[i].panic)
    /\ [][SomeExtendFailed =>
            /\ pc' = pc
            /\ core' = core
            /\ registered' = registered
            /\ calls' = calls
            /\ buildCalls' = buildCalls
            /\ built' = built]_vars

\* The extend of the first of three registered extensions failed in a
\* direct build(): the two later ones were not called.
C15_Witness ==
    /\ pc = "BuildPanicked"
    /\ addr = None
    /\ Len(registered) = 3
    /\ Len(calls) = 1
    /\ calls[1].panic

\* C16: from Running, a step either stays Running, with the same listener
\* and router and no new bind, or is the external abort, after which
\* nothing is bound or served; an aborted run() never serves, binds or
\* changes state again.
C16_RunningUntilAbort ==
    /\ [][pc = "Running" =>
            \/ /\ pc' = "Running"
               /\ listener' = listener
               /\ serving' = serving
               /\ binds' = binds
            \/ /\ pc' = "Aborted"
               /\ listener' = None
               /\ serving' = None
               /\ binds' = binds]_vars
    /\ [][pc = "Aborted" =>
            /\ pc' = "Aborted"
            /\ listener' = None
            /\ serving' = None
            /\ binds' = binds
            /\ response' = response]_vars

\* A run() that had answered a request was aborted.
C16_Witness ==
    /\ pc = "Aborted"
    /\ response # None
    /\ Len(binds) = 1
    /\ listener = None

\* C17: when an extend fails in the build step of run(), run() has failed
\* with no bind made, no listener, nothing served and no request answered.
C17_FailedBuildInRunBindsNothing ==
    (addr # None /\ SomeExtendFailed) =>
        /\ pc = "BuildPanicked"
        /\ binds = << >>
        /\ listener = None
        /\ serving = None
        /\ response = None

\* run() was called and the extend of its second extension failed.
C17_Witness ==
    /\ addr # None
    /\ pc = "BuildPanicked"
    /\ Len(calls) = 2
    /\ calls[2].panic

\* C18: a direct build() ends Built or failed, with no bind, no startup
\* line, no listener, nothing served; and every state in or after the bind
\* of a run (Binding, Running, failed bind, aborted) was reached by a run()
\* call.
C18_BuildNeverRuns ==
    /\ (buildCalls = 1 /\ addr = None) =>
          /\ pc \in {"Built", "BuildPanicked"}
          /\ binds = << >>
          /\ stdout = << >>
          /\ listener = None
          /\ serving = None
          /\ response = None
    /\ pc \in {"Binding", "Running", "BindPanicked", "Aborted"} => addr # None
    /\ pc = "Built" => addr = None

\* A direct build() of three registrations returned a router.
C18_Witness ==
    /\ pc = "Built"
    /\ addr = None
    /\ built # None
    /\ Len(registered) = 3

====
